---- MODULE Spec2Model ----
(***************************************************************************)
(* CoverFlowAI: the generate button's handler (App.handleGenerate), the    *)
(* credential check, the provider adapters of services/geminiService.ts    *)
(* and the settings store, as state machines.                              *)
(*                                                                         *)
(* Three specifications share the module's variables:                      *)
(*   Spec          the App component: settings actions and one generation  *)
(*                 attempt at a time through generateCoverImage;           *)
(*   SpecQwen      one call of generateWithQwen (submit, then poll);       *)
(*   SpecCheckKey  calls of checkApiKey on bounded inputs;                 *)
(*   SpecStartup   the App's first render: the settings initializer reading *)
(*                 the persisted record, and the persist effect;           *)
(*   SpecLive      attempts of handleGenerate under fairness of their steps, *)
(*                 with generateWithQwen behind generateCoverImage;        *)
(*   SpecPrompt    calls of buildPrompt, and generateWithSiliconFlow        *)
(*                 composing its request body, on bounded form data.       *)
(* A specification leaves the other specifications' variables unchanged.   *)
(*                                                                         *)
(* Text is modelled as a sequence of fragments: a template string is the   *)
(* concatenation of its literal parts and its interpolated values, and     *)
(* String.includes is membership of a fragment.  The Chinese literals of   *)
(* the source are written as ASCII tokens.                                 *)
(***************************************************************************)
EXTENDS Naturals, Sequences, FiniteSets

VARIABLES
  \* ---- the App component (Spec)
  settings,        \* useState<AppSettings>: activeProvider, apiKeys, selectedModels
  defaultsObject,  \* settings is the DEFAULT_SETTINGS object itself (Object.is)
  storage,         \* localStorage under 'coverflow_settings_v1': <<>> or <<record>>
  envApiKey,       \* process.env.API_KEY is set
  isLoading,       \* useState(false)
  error,           \* useState<string | null>(null)
  generatedImages, \* useState<string[]>([])
  pc,              \* position of the attempt handleGenerate is running ("idle": none)
  req,             \* what the running attempt read from settings: provider, model, apiKey
  resp,            \* the provider's answer the running attempt is handling
  calls,           \* network calls the current (or last) attempt has issued
  inFlight,        \* attempts started and not yet finished
  thrown,          \* history: message of the error the last attempt's catch received
  \* ---- checkApiKey (SpecCheckKey)
  ckpc,            \* "call" before, "done" after the call
  ckProvider,      \* argument provider
  ckKey,           \* argument savedKey (Undefined: not passed)
  ckResult,        \* the value the promise resolved with
  ckHost,          \* history: what window.aistudio was during the call
  \* ---- the App's first render (SpecStartup)
  bootpc,          \* "boot" before the first render, then "running" or "crashed"
  saved,           \* const saved = localStorage.getItem(...): <<>> (null) or <<text>>
  bootError,       \* the message of the error the first render threw
  \* ---- buildPrompt and the SiliconFlow request (SpecPrompt)
  ppc,             \* "call" before, "built" / "sent" after
  data,            \* argument data: CoverFormData
  forceChineseContext, \* argument forceChineseContext
  prompt,          \* the text buildPrompt returned
  sfBody,          \* the JSON body generateWithSiliconFlow posted
  \* ---- generateWithQwen (SpecQwen)
  qpc,          \* position in generateWithQwen
  qApiKey,      \* the request's apiKey
  status,       \* let status   (geminiService.ts:284)
  attempts,     \* let attempts (geminiService.ts:285)
  qResp,        \* the HTTP response being awaited or read
  qImages,      \* the value generateWithQwen resolved with
  qError,       \* the message of the error it rejected with
  polls,        \* status fetches issued so far
  waited,       \* seconds of setTimeout waited so far
  allPending,   \* history: every status poll so far reported PENDING
  firstSucc,    \* history: number of the first poll that reported SUCCEEDED
                \*          with a non-empty result list (0: none yet)
  sawFailed,    \* history: some poll reported FAILED
  httpFailed    \* history: status fetches answered with a non-ok HTTP status

qwenVars == <<qpc, qApiKey, status, attempts, qResp, qImages, qError,
              polls, waited, allPending, firstSucc, sawFailed, httpFailed>>

appVars == <<settings, defaultsObject, storage, envApiKey, isLoading, error,
             generatedImages, pc, req, resp, calls, inFlight, thrown>>

ckVars == <<ckpc, ckProvider, ckKey, ckResult, ckHost>>

bootVars == <<bootpc, saved, bootError>>

promptVars == <<ppc, data, forceChineseContext, prompt, sfBody>>

vars == <<appVars, ckVars, qwenVars, bootVars, promptVars>>

\* ------------------------------------------------------------------------
\* Values shared by the adapters

\* JavaScript's undefined where a text is expected; `${undefined}` renders
\* as the text "undefined"
Undefined == <<"undefined">>

\* Longest result list a provider answers with
MaxResults == 2

\* Image URLs a provider may answer with
Urls == {"u1", "u2"}

\* arrays of at most n elements of S
SeqUpTo(S, n) == UNION {[1..k -> S] : k \in 0..n}

\* `a${b}`: template-string concatenation of two texts
Cat(a, b) == a \o b

\* s.includes(token)
Includes(s, token) == \E i \in 1..Len(s) : s[i] = token

\* only the first result is kept
MapUrlFirstOnly(items) == <<items[1].url>>

\* results.map(item => item.url)
MapUrl(items) == [i \in 1..Len(items) |-> items[i].url]

\* x || y on texts: undefined and "" are falsy
OrElse(x, y) == IF x = Undefined \/ x = <<>> THEN y ELSE x

\* What a rejected fetch() carries (a TypeError)
FetchFailure == <<"Failed to fetch">>

\* What response.json() rejects with on a body that is not JSON (a SyntaxError)
JsonSyntaxError == <<"Unexpected token in JSON">>

\* HTTP status texts of a non-2xx response ("" under HTTP/2)
StatusTexts == {<<"Unauthorized">>, <<>>}

\* message fields of a provider's error body
BodyMessages == {Undefined, <<>>, <<"bad key">>}

\* ------------------------------------------------------------------------
\* generateWithQwen (Adapter C): submit a task, then poll its status

maxAttempts == 30

QwenKeyRequired == <<"Qwen (Dashscope) API Key is required.">>
QwenNoTaskId == <<"Qwen did not return a Task ID.">>
QwenTimedOut == <<"Qwen generation timed out.">>

\* `Qwen Submit Error: ${err.message || submitResponse.statusText}`
QwenSubmitError(message, statusText) ==
  Cat(<<"Qwen Submit Error: ">>, OrElse(message, statusText))

\* the provider's message is dropped
QwenGenerationFailedGeneric(message) == <<"Qwen Generation Failed">>

\* `Qwen Generation Failed: ${statusResult.output?.message}`
QwenGenerationFailed(message) == Cat(<<"Qwen Generation Failed: ">>, message)

\* task_status values of the status endpoint; "undefined": output.task_status absent
TaskStatuses == {"PENDING", "RUNNING", "SUCCEEDED", "FAILED", "undefined"}

\* output.results of the status endpoint: a list of {url}
ResultLists == SeqUpTo([url : Urls], MaxResults)

NoResp == [kind |-> "none", ok |-> FALSE, json |-> FALSE, message |-> Undefined,
           statusText |-> <<>>, task_id |-> FALSE, task_status |-> "undefined",
           hasResults |-> FALSE, results |-> <<>>]

\* what fetch() of the submit endpoint may produce
SubmitResponses ==
     {[NoResp EXCEPT !.kind = "reject"]}
  \cup {[NoResp EXCEPT !.kind = "http", !.json = j, !.message = m, !.statusText = t] :
          j \in BOOLEAN, m \in BodyMessages, t \in StatusTexts}
  \cup {[NoResp EXCEPT !.kind = "http", !.ok = TRUE, !.json = j, !.task_id = i] :
          j \in BOOLEAN, i \in BOOLEAN}

\* what fetch() of the status endpoint may produce
PollResponses ==
     {[NoResp EXCEPT !.kind = "reject"]}
  \cup {[NoResp EXCEPT !.kind = "http"]}
  \cup {[NoResp EXCEPT !.kind = "http", !.ok = TRUE]}
  \cup {[NoResp EXCEPT !.kind = "http", !.ok = TRUE, !.json = TRUE, !.task_status = s] :
          s \in TaskStatuses \ {"SUCCEEDED", "FAILED"}}
  \cup {[NoResp EXCEPT !.kind = "http", !.ok = TRUE, !.json = TRUE,
                       !.task_status = "FAILED", !.message = m] :
          m \in {Undefined, <<"task failed">>}}
  \cup {[NoResp EXCEPT !.kind = "http", !.ok = TRUE, !.json = TRUE,
                       !.task_status = "SUCCEEDED"]}
  \cup {[NoResp EXCEPT !.kind = "http", !.ok = TRUE, !.json = TRUE,
                       !.task_status = "SUCCEEDED", !.hasResults = TRUE, !.results = r] :
          r \in ResultLists}

\* the loop looks at the attempt budget only, not at the status
QwenLoopContinuesBudgetOnly(st, att) == att < maxAttempts

\* the loop bound off by one: attempts <= maxAttempts
QwenLoopContinuesOffByOne(st, att) == st # "SUCCEEDED" /\ att <= maxAttempts

\* the while condition of the poll loop
QwenLoopContinues(st, att) == st # "SUCCEEDED" /\ att < maxAttempts

\* results && results.length > 0
QwenHasResults(r) == r.hasResults /\ Len(r.results) > 0

QwenHistUnchanged == UNCHANGED <<allPending, firstSucc, sawFailed, httpFailed>>

\* generateWithQwen touches nothing of the App component
QwenOnly == UNCHANGED <<appVars, ckVars, bootVars, promptVars>>

\* generateWithQwen rejects with an error carrying message m
QwenThrow(m) ==
  /\ qpc' = "failed"
  /\ qError' = m
  /\ qResp' = NoResp
  /\ UNCHANGED qImages

\* the loop condition is evaluated: next iteration's timer, or the timeout
QwenLoopTest(st, att) ==
  IF QwenLoopContinues(st, att)
    THEN /\ qpc' = "wait"
         /\ qResp' = NoResp
         /\ UNCHANGED <<qImages, qError>>
    ELSE QwenThrow(QwenTimedOut)

\* the credential check, the prompt and the submit fetch being issued
QwenStart ==
  /\ QwenOnly
  /\ qpc = "start"
  /\ IF qApiKey = <<>>
       THEN QwenThrow(QwenKeyRequired)
       ELSE /\ qpc' = "submit"
            /\ UNCHANGED <<qResp, qImages, qError>>
  /\ UNCHANGED <<qApiKey, status, attempts, polls, waited>>
  /\ QwenHistUnchanged

\* the submit fetch settles
QwenSubmitResponse ==
  /\ QwenOnly
  /\ qpc = "submit"
  /\ \E r \in SubmitResponses :
       IF r.kind = "reject"
         THEN QwenThrow(FetchFailure)
         ELSE /\ qpc' = "submitBody"
              /\ qResp' = r
              /\ UNCHANGED <<qImages, qError>>
  /\ UNCHANGED <<qApiKey, status, attempts, polls, waited>>
  /\ QwenHistUnchanged

\* the submit response's body is read; on a task id the poll loop is entered
QwenSubmitBody ==
  /\ QwenOnly
  /\ qpc = "submitBody"
  /\ IF ~qResp.json
       THEN QwenThrow(JsonSyntaxError) /\ UNCHANGED <<status, attempts>>
       ELSE IF ~qResp.ok
       THEN /\ QwenThrow(QwenSubmitError(qResp.message, qResp.statusText))
            /\ UNCHANGED <<status, attempts>>
       ELSE IF ~qResp.task_id
       THEN QwenThrow(QwenNoTaskId) /\ UNCHANGED <<status, attempts>>
       ELSE /\ status' = "PENDING"
            /\ attempts' = 0
            /\ QwenLoopTest("PENDING", 0)
  /\ UNCHANGED <<qApiKey, polls, waited>>
  /\ QwenHistUnchanged

\* the 1 s timer fires: attempts++ and the status fetch is issued
QwenWait ==
  /\ QwenOnly
  /\ qpc = "wait"
  /\ waited' = waited + 1
  /\ attempts' = attempts + 1
  /\ polls' = polls + 1
  /\ qpc' = "poll"
  /\ UNCHANGED <<qApiKey, status, qResp, qImages, qError>>
  /\ QwenHistUnchanged

\* a non-ok status response ends generateWithQwen with an error
QwenContinueFatal(st, att) == QwenThrow(<<"Qwen Status Error">>)

\* if (!statusResponse.ok) continue: back to the loop condition
QwenContinue(st, att) == QwenLoopTest(st, att)

\* the status fetch settles; a non-ok response is skipped with continue
QwenPollResponse ==
  /\ QwenOnly
  /\ qpc = "poll"
  /\ \E r \in PollResponses :
       /\ IF r.kind = "reject"
            THEN QwenThrow(FetchFailure)
            ELSE IF ~r.ok
            THEN QwenContinue(status, attempts)
            ELSE /\ qpc' = "pollBody"
                 /\ qResp' = r
                 /\ UNCHANGED <<qImages, qError>>
       /\ allPending' = (allPending /\ r.kind = "http" /\ r.ok /\ r.json
                                     /\ r.task_status = "PENDING")
       /\ firstSucc' = IF firstSucc = 0 /\ r.kind = "http" /\ r.ok /\ r.json
                           /\ r.task_status = "SUCCEEDED" /\ QwenHasResults(r)
                         THEN polls ELSE firstSucc
       /\ sawFailed' = (sawFailed \/ (r.kind = "http" /\ r.ok /\ r.json
                                        /\ r.task_status = "FAILED"))
       /\ httpFailed' = IF r.kind = "http" /\ ~r.ok THEN httpFailed + 1 ELSE httpFailed
  /\ UNCHANGED <<qApiKey, status, attempts, polls, waited>>

\* the status body is read and acted on
QwenPollBody ==
  /\ QwenOnly
  /\ qpc = "pollBody"
  /\ IF ~qResp.json
       THEN QwenThrow(JsonSyntaxError) /\ UNCHANGED status
       ELSE /\ status' = qResp.task_status
            /\ IF qResp.task_status = "SUCCEEDED" /\ QwenHasResults(qResp)
                 THEN /\ qpc' = "returned"
                      /\ qImages' = MapUrl(qResp.results)
                      /\ UNCHANGED <<qResp, qError>>
                 ELSE IF qResp.task_status = "FAILED"
                 THEN QwenThrow(QwenGenerationFailed(qResp.message))
                 ELSE QwenLoopTest(qResp.task_status, attempts)
  /\ UNCHANGED <<qApiKey, attempts, polls, waited>>
  /\ QwenHistUnchanged

\* ------------------------------------------------------------------------
\* constants.ts and the types

GEMINI == "gemini"
SILICONFLOW == "siliconflow"

\* enum ModelProvider
Providers == {GEMINI, SILICONFLOW}

\* model ids, as the fragments String.includes is asked about
Gemini3Pro == <<"gemini-3-pro", "-image-preview">>
Gemini25Flash == <<"gemini-2.5-flash-image">>
FluxSchnell == <<"black-forest-labs/FLUX.1-schnell">>
FluxDev == <<"black-forest-labs/FLUX.1-dev">>
SD3Medium == <<"stabilityai/stable-diffusion-3-medium">>
GLM4 == <<"THUDM/glm-4-9b-chat">>
Qwen25 == <<"Qwen/Qwen2.5-7B-Instruct">>

\* MODEL_PROVIDERS: per provider, its name and the ids of its models, in order
MODEL_PROVIDERS ==
  [p \in Providers |->
     IF p = GEMINI
       THEN [name |-> <<"Google Gemini">>, models |-> <<Gemini3Pro, Gemini25Flash>>]
       ELSE [name |-> <<"SiliconFlow">>,
             models |-> <<FluxSchnell, FluxDev, SD3Medium, GLM4, Qwen25>>]]

DEFAULT_SETTINGS ==
  [activeProvider |-> GEMINI,
   apiKeys |-> [p \in Providers |-> <<>>],
   selectedModels |-> [p \in Providers |->
                         IF p = GEMINI THEN Gemini3Pro ELSE FluxSchnell]]

\* the lookup compares the wrong field and finds no provider
ProviderNameNotFound(provider) == Undefined

\* MODEL_PROVIDERS.find(p => p.id === provider)?.name
ProviderName(provider) ==
  IF provider \in Providers THEN MODEL_PROVIDERS[provider].name ELSE Undefined

\* ------------------------------------------------------------------------
\* checkApiKey

\* Longest API key tried
MaxKeyLen == 6

\* an API key of n characters (a text whose fragments are its characters)
KeyChars == {"s", "k"}
Key(n) == [i \in 1..n |-> "k"]

\* !!text
Truthy(text) == text # Undefined /\ text # <<>>

\* window.aistudio: absent, or its hasSelectedApiKey() answers true or false
HostSignals == {"unavailable", "selected", "notSelected"}

\* every provider other than Gemini accepts any non-empty key
checkApiKeyNonEmpty(provider, savedKey, host, envKey) ==
  IF provider = GEMINI
    THEN host = "selected" \/ Truthy(savedKey) \/ envKey
    ELSE Truthy(savedKey)

\* the saved key is consulted only when the host offers no key selection
checkApiKeyHostDecides(provider, savedKey, host, envKey) ==
  IF provider = GEMINI
    THEN IF host = "unavailable" THEN Truthy(savedKey) \/ envKey ELSE host = "selected"
    ELSE Truthy(savedKey) /\ Len(savedKey) > 5

checkApiKey(provider, savedKey, host, envKey) ==
  IF provider = GEMINI
    THEN host = "selected" \/ Truthy(savedKey) \/ envKey
    ELSE Truthy(savedKey) /\ Len(savedKey) > 5

\* one call of checkApiKey, from its arguments to the value it resolves with
CheckApiKey ==
  /\ ckpc = "call"
  /\ \E host \in HostSignals :
       /\ ckResult' = checkApiKey(ckProvider, ckKey, host, envApiKey)
       /\ ckHost' = host
  /\ ckpc' = "done"
  /\ UNCHANGED <<ckProvider, ckKey>>
  /\ UNCHANGED <<appVars, qwenVars, bootVars, promptVars>>

\* ------------------------------------------------------------------------
\* The App component: state, the settings actions and handleGenerate

\* error === null
NoError == <<"null">>

\* thrown: the attempt has thrown nothing
NotThrown == <<"not thrown">>

NoReq == [provider |-> "none", model |-> <<>>, apiKey |-> <<>>]

NoAnswer == [kind |-> "none", status |-> 0, message |-> Undefined, statusText |-> <<>>,
             ok |-> FALSE, json |-> FALSE, isNull |-> FALSE, hasList |-> FALSE,
             list |-> <<>>]

GenericError == <<"Something went wrong during generation.">>

\* the message is shown as it is, without the fallback text
ErrorTextNoFallback(message) == message

\* err.message || 'Something went wrong during generation.'
ErrorText(message) == OrElse(message, GenericError)

\* `Please enter an API Key for ${MODEL_PROVIDERS.find(...)?.name} in Settings.`
PleaseEnterKey(provider) ==
  Cat(Cat(<<"Please enter an API Key for ">>, ProviderName(provider)), <<" in Settings.">>)

UnknownProvider == <<"Unknown provider selected.">>

\* the button is never disabled
GenerateNeverDisabled == FALSE

\* the generate button's disabled attribute
GenerateDisabled == isLoading

\* API keys typed into the settings dialog: none, too short, long enough
AppKeys == {Key(0), Key(MaxKeyLen - 1), Key(MaxKeyLen)}

\* the settings state before the first render has produced one
NoSettings ==
  [activeProvider |-> "none",
   apiKeys |-> [p \in Providers |-> <<>>],
   selectedModels |-> [p \in Providers |-> <<>>]]

\* JSON.stringify(settings): the text of an object with the settings' fields
JSONstringify(s) == [json |-> "object", value |-> s]

\* texts under the storage key that the App did not write: '' and a text that
\* is not JSON (a truncated or hand-edited record)
EmptyText == [json |-> "empty", value |-> NoSettings]
MalformedText == [json |-> "malformed", value |-> NoSettings]

\* JSON.parse(text) returns (it throws a SyntaxError otherwise), and its value
JSONparses(text) == text.json = "object"
JSONparse(text) == text.value

\* the effect writes the record once and never again
PersistedStale(s) == <<JSONstringify(DEFAULT_SETTINGS)>>

\* useEffect(() => localStorage.setItem(key, JSON.stringify(settings)), [settings])
Persisted(s) == <<JSONstringify(s)>>

SettingsUnchanged == UNCHANGED <<settings, defaultsObject, storage>>

AttemptUnchanged ==
  UNCHANGED <<isLoading, error, generatedImages, pc, req, resp, calls, inFlight, thrown>>

\* the App component touches nothing of the function-level specifications
AppOnly == UNCHANGED <<ckVars, qwenVars, bootVars, promptVars>>

\* setSettings with a new object, then the persist effect
SetSettings(s) ==
  /\ settings' = s
  /\ defaultsObject' = FALSE
  /\ storage' = Persisted(s)
  /\ UNCHANGED envApiKey
  /\ AttemptUnchanged
  /\ AppOnly

\* the provider buttons of the settings dialog
SwitchProvider ==
  \E p \in Providers : SetSettings([settings EXCEPT !.activeProvider = p])

handleUpdateApiKey ==
  \E value \in AppKeys :
    SetSettings([settings EXCEPT !.apiKeys[settings.activeProvider] = value])

\* the radio list offers the models of every provider
handleModelSelectAnyProvider ==
  \E p \in Providers :
    \E i \in 1..Len(MODEL_PROVIDERS[p].models) :
      SetSettings([settings EXCEPT !.selectedModels[settings.activeProvider] =
                     MODEL_PROVIDERS[p].models[i]])

\* the radio list offers the models of the active provider's configuration
handleModelSelect ==
  \E i \in 1..Len(MODEL_PROVIDERS[settings.activeProvider].models) :
    SetSettings([settings EXCEPT !.selectedModels[settings.activeProvider] =
                   MODEL_PROVIDERS[settings.activeProvider].models[i]])

\* the confirmed branch: removeItem, then setSettings(DEFAULT_SETTINGS); React
\* re-renders and runs the persist effect only when the state object changed
handleClearData ==
  /\ settings' = DEFAULT_SETTINGS
  /\ defaultsObject' = TRUE
  /\ storage' = IF defaultsObject THEN <<>> ELSE Persisted(DEFAULT_SETTINGS)
  /\ UNCHANGED envApiKey
  /\ AttemptUnchanged
  /\ AppOnly

\* ---- handleGenerate

\* the finally block is missing: the attempt ends and isLoading stays true
FinishKeepsLoading ==
  /\ isLoading' = TRUE
  /\ inFlight' = inFlight - 1
  /\ pc' = "idle"
  /\ req' = NoReq
  /\ resp' = NoAnswer

\* the running attempt ends: finally { setIsLoading(false) }
Finish ==
  /\ isLoading' = FALSE
  /\ inFlight' = inFlight - 1
  /\ pc' = "idle"
  /\ req' = NoReq
  /\ resp' = NoAnswer

\* an error with this message reaches handleGenerate's catch
Throw(message) ==
  /\ Finish
  /\ thrown' = message
  /\ error' = ErrorText(message)
  /\ UNCHANGED generatedImages

\* generateCoverImage resolved: setGeneratedImages(images)
Return(images) ==
  /\ Finish
  /\ generatedImages' = images
  /\ UNCHANGED <<error, thrown>>

\* the attempt moves on to position p
Goto(p) ==
  /\ pc' = p
  /\ UNCHANGED <<isLoading, error, generatedImages, req, resp, inFlight, thrown>>

\* a click on the generate button: setError(null), setIsLoading(true), and the
\* settings of the current render are what the attempt works with
Generate ==
  /\ ~GenerateDisabled
  /\ error' = NoError
  /\ isLoading' = TRUE
  /\ inFlight' = inFlight + 1
  /\ pc' = "checkKey"
  /\ req' = [provider |-> settings.activeProvider,
             model |-> settings.selectedModels[settings.activeProvider],
             apiKey |-> settings.apiKeys[settings.activeProvider]]
  /\ resp' = NoAnswer
  /\ calls' = 0
  /\ thrown' = NotThrown
  /\ UNCHANGED <<generatedImages, envApiKey>>
  /\ SettingsUnchanged
  /\ AppOnly

\* await checkApiKey(...) and the branch on isKeyValid
CheckKey ==
  /\ pc = "checkKey"
  /\ \E host \in HostSignals :
       IF checkApiKey(req.provider, req.apiKey, host, envApiKey)
         THEN Goto("dispatch")
         ELSE IF req.provider = GEMINI
         THEN Goto("selectKey")
         ELSE Throw(PleaseEnterKey(req.provider))
  /\ UNCHANGED <<calls, envApiKey>>
  /\ SettingsUnchanged
  /\ AppOnly

\* the key selection also stores a key in the settings
SelectKeyStoresKey ==
  /\ pc = "selectKey"
  /\ \E outcome \in {"unavailable", "dismissed", "selected"} :
       envApiKey' = (envApiKey \/ outcome = "selected")
  /\ Goto("dispatch")
  /\ UNCHANGED calls
  /\ settings' = [settings EXCEPT !.apiKeys[GEMINI] = Key(MaxKeyLen)]
  /\ defaultsObject' = FALSE
  /\ storage' = Persisted(settings')
  /\ AppOnly

\* await requestApiKeySelection(): the host's dialog when there is one (it may
\* provide a key), a console warning otherwise
SelectKey ==
  /\ pc = "selectKey"
  /\ \E outcome \in {"unavailable", "dismissed", "selected"} :
       envApiKey' = (envApiKey \/ outcome = "selected")
  /\ Goto("dispatch")
  /\ UNCHANGED calls
  /\ SettingsUnchanged
  /\ AppOnly

\* ---- generateWithGemini (Adapter A)

\* Longest list of parts (Gemini) or of images (SiliconFlow) in an answer
MaxImages == 1

GeminiNoKey == <<"GEMINI_NO_API_KEY">>
GeminiNoImages == <<"GEMINI_NO_IMAGE_DATA">>
GeminiPermissionDenied == <<"GEMINI_PERMISSION_DENIED_403">>
GeminiNetworkError == <<"GEMINI_NETWORK_ERROR">>

\* reading a property of undefined (a TypeError)
TypeErrorUndefined == <<"Cannot read properties of undefined">>

\* what fileToBase64 may reject with: an event without message, or an Error
FileErrors == {Undefined, <<"file could not be read">>}

\* model.includes('gemini-3-pro')
IsGemini3Pro(model) == Includes(model, "gemini-3-pro")

\* the parts of a candidate: text, or inline data with or without a MIME type
GeminiParts ==
  {[inline |-> FALSE, mimeType |-> Undefined],
   [inline |-> TRUE, mimeType |-> Undefined],
   [inline |-> TRUE, mimeType |-> <<"image/jpeg">>]}

\* errors ai.models.generateContent may reject with: status and message
GeminiErrors ==
  {[NoAnswer EXCEPT !.kind = "error", !.status = e[1], !.message = e[2]] :
     e \in {<<403, <<"forbidden">>>>,
            <<0, <<"PERMISSION_DENIED">>>>,
            <<0, <<"caller lacks ", "permission">>>>,
            <<429, <<"RESOURCE_EXHAUSTED">>>>,
            <<0, <<"xhr error">>>>,
            <<0, <<"Rpc failed">>>>,
            <<0, <<"Fetch failure">>>>,
            <<500, <<"internal error">>>>,
            <<0, <<>>>>,
            <<0, Undefined>>}}

\* responses of generateContent: no candidates, a candidates array that is
\* empty (isNull), or a first candidate with parts
GeminiResponses ==
     {[NoAnswer EXCEPT !.kind = "response"]}
  \cup {[NoAnswer EXCEPT !.kind = "response", !.isNull = TRUE]}
  \cup {[NoAnswer EXCEPT !.kind = "response", !.hasList = TRUE, !.list = l] :
          l \in SeqUpTo(GeminiParts, MaxImages)}

\* `data:${part.inlineData.mimeType || 'image/png'};base64,${part.inlineData.data}`
DataUri(part) ==
  Cat(Cat(<<"data:">>, OrElse(part.mimeType, <<"image/png">>)), <<";base64,", "payload">>)

IsInline(part) == part.inline

\* the loop over the first candidate's parts
ExtractImages(answer) ==
  IF answer.hasList
    THEN LET inl == SelectSeq(answer.list, IsInline)
         IN  [i \in 1..Len(inl) |-> DataUri(inl[i])]
    ELSE <<>>

\* error.status === 403 || message includes PERMISSION_DENIED or permission
GeminiIsPermission(e) ==
  \/ e.status = 403
  \/ Includes(e.message, "PERMISSION_DENIED")
  \/ Includes(e.message, "permission")

\* message includes "xhr error", "Rpc failed" or "Fetch failure"
GeminiIsNetwork(e) ==
  \/ Includes(e.message, "xhr error")
  \/ Includes(e.message, "Rpc failed")
  \/ Includes(e.message, "Fetch failure")

\* the catch block: the message of the error it throws for error e
GeminiCatch(e) ==
  IF GeminiIsPermission(e) THEN GeminiPermissionDenied
  ELSE IF GeminiIsNetwork(e) THEN GeminiNetworkError
  ELSE e.message

\* the credential is resolved; without one the adapter throws at once
GeminiStart ==
  IF ~(Truthy(req.apiKey) \/ envApiKey)
    THEN Throw(GeminiNoKey)
    ELSE Goto("gemFiles")

\* the attached images are read (a read may fail), the prompt and the config
\* are built and generateContent is called
GeminiFiles ==
  /\ pc = "gemFiles"
  /\ \E subjectImage \in BOOLEAN, referenceImage \in BOOLEAN :
       \/ /\ subjectImage \/ referenceImage
          /\ \E m \in FileErrors : Throw(m)
          /\ UNCHANGED calls
       \/ /\ calls' = calls + 1
          /\ Goto("gemCall")
  /\ UNCHANGED envApiKey
  /\ SettingsUnchanged
  /\ AppOnly

\* generateContent settles
GeminiAnswer ==
  /\ pc = "gemCall"
  /\ \E a \in GeminiErrors \cup GeminiResponses : resp' = a
  /\ pc' = "gemHandle"
  /\ UNCHANGED <<isLoading, error, generatedImages, req, inFlight, thrown>>
  /\ UNCHANGED <<calls, envApiKey>>
  /\ SettingsUnchanged
  /\ AppOnly

\* the catch block calls generateContent again on every error, up to three calls
GeminiHandleRetrying ==
  /\ pc = "gemHandle"
  /\ IF resp.kind = "error" /\ calls < 3
       THEN calls' = calls + 1 /\ Goto("gemCall")
       ELSE Throw(GeminiCatch(resp)) /\ UNCHANGED calls
  /\ UNCHANGED envApiKey
  /\ SettingsUnchanged
  /\ AppOnly

\* the rest of the try block, or the catch block
GeminiHandle ==
  /\ pc = "gemHandle"
  /\ IF resp.kind = "response"
       THEN IF resp.isNull
              THEN Throw(GeminiCatch([NoAnswer EXCEPT !.message = TypeErrorUndefined]))
              ELSE IF ExtractImages(resp) = <<>>
              THEN Throw(GeminiCatch([NoAnswer EXCEPT !.message = GeminiNoImages]))
              ELSE Return(ExtractImages(resp))
       ELSE Throw(GeminiCatch(resp))
  /\ UNCHANGED <<calls, envApiKey>>
  /\ SettingsUnchanged
  /\ AppOnly

\* ---- generateWithSiliconFlow (Adapter B)

SfKeyRequired == <<"SiliconFlow", " API Key is required.">>
SfNoImage == <<"No image data returned from ", "SiliconFlow", ".">>

\* reading a property of null (a TypeError)
TypeErrorNull == <<"Cannot read properties of null">>

\* `SiliconFlow Error: ${err.message || response.statusText}`
SfError(message, statusText) ==
  Cat(<<"SiliconFlow", " Error: ">>, OrElse(message, statusText))

SfUrls == {<<"https://sf/image">>}

\* what fetch() of the images endpoint may produce: a rejection, or a response
\* (ok or not) whose body is not JSON, is null, or is an object
SfAnswers ==
     {[NoAnswer EXCEPT !.kind = "reject"]}
  \cup {[NoAnswer EXCEPT !.kind = "http", !.ok = o, !.statusText = t] :
          o \in BOOLEAN, t \in StatusTexts}
  \cup {[NoAnswer EXCEPT !.kind = "http", !.ok = o, !.json = TRUE, !.isNull = TRUE,
                         !.statusText = t] :
          o \in BOOLEAN, t \in StatusTexts}
  \cup {[NoAnswer EXCEPT !.kind = "http", !.json = TRUE, !.message = m, !.statusText = t] :
          m \in BodyMessages, t \in StatusTexts}
  \cup {[NoAnswer EXCEPT !.kind = "http", !.ok = TRUE, !.json = TRUE]}
  \cup {[NoAnswer EXCEPT !.kind = "http", !.ok = TRUE, !.json = TRUE,
                         !.hasList = TRUE, !.list = l] :
          l \in SeqUpTo([url : SfUrls], MaxImages)}

\* any array counts as image data, an empty one too
SfHasDataAnyArray(r) == r.hasList

\* result.data && result.data.length > 0
SfHasData(r) == r.hasList /\ Len(r.list) > 0

\* the credential check, the prompt, the body and the fetch being issued
SfStart ==
  IF ~Truthy(req.apiKey)
    THEN Throw(SfKeyRequired) /\ UNCHANGED calls
    ELSE Goto("sfFetch") /\ calls' = calls + 1

\* the fetch settles
SfAnswer ==
  /\ pc = "sfFetch"
  /\ \E a \in SfAnswers :
       IF a.kind = "reject"
         THEN Throw(FetchFailure)
         ELSE /\ resp' = a
              /\ pc' = "sfBody"
              /\ UNCHANGED <<isLoading, error, generatedImages, req, inFlight, thrown>>
  /\ UNCHANGED <<calls, envApiKey>>
  /\ SettingsUnchanged
  /\ AppOnly

\* await response.json() and what follows it, for a non-ok and for an ok response
SfBody ==
  /\ pc = "sfBody"
  /\ IF ~resp.json THEN Throw(JsonSyntaxError)
     ELSE IF resp.isNull THEN Throw(TypeErrorNull)
     ELSE IF ~resp.ok THEN Throw(SfError(resp.message, resp.statusText))
     ELSE IF SfHasData(resp) THEN Return(MapUrl(resp.list))
     ELSE Throw(SfNoImage)
  /\ UNCHANGED <<calls, envApiKey>>
  /\ SettingsUnchanged
  /\ AppOnly

\* ---- generateCoverImage

\* the switch on the provider, and the adapter's code up to its first await
Dispatch ==
  /\ pc = "dispatch"
  /\ IF req.provider = GEMINI THEN GeminiStart /\ UNCHANGED calls
     ELSE IF req.provider = SILICONFLOW THEN SfStart
     ELSE Throw(UnknownProvider) /\ UNCHANGED calls
  /\ UNCHANGED envApiKey
  /\ SettingsUnchanged
  /\ AppOnly

\* ------------------------------------------------------------------------
\* buildPrompt, and the request body generateWithSiliconFlow composes

\* Longest title, subtitle and instruction tried
MaxTextLen == 1

\* characters of the form's texts: a Latin letter, a CJK ideograph of
\* Extension A (U+3400) and one of the basic block (U+4E2D)
InputChars == {"A", "U+3400", "U+4E2D"}

\* the code point of a character
CodePoint(c) ==
  CASE c = "A" -> 65
    [] c = "U+3400" -> 13312
    [] c = "U+4E2D" -> 20013
    [] c = "U+4F53" -> 20307
    [] c = "U+6587" -> 25991
    [] c = "U+7B80" -> 31616
    [] OTHER -> 32

\* the bounds of the character class [\u4e00-\u9fa5]
HanziFirst == 19968
HanziLast == 40869

Platforms == {"YouTube", "TikTok/Douyin", "Instagram/XiaoHongShu", "Bilibili"}
AspectRatios == {"16:9", "9:16", "4:3", "3:4", "1:1"}

\* CoverFormData; an attached File is modelled by its presence
FormData ==
  [mainTitle : SeqUpTo(InputChars, MaxTextLen),
   subTitle : SeqUpTo(InputChars, MaxTextLen),
   instruction : SeqUpTo(InputChars, MaxTextLen),
   platform : Platforms,
   aspectRatio : AspectRatios,
   subjectImage : BOOLEAN,
   referenceImage : BOOLEAN]

NoData ==
  [mainTitle |-> <<>>, subTitle |-> <<>>, instruction |-> <<>>, platform |-> "none",
   aspectRatio |-> "none", subjectImage |-> FALSE, referenceImage |-> FALSE]

NoBody == [model |-> <<>>, prompt |-> <<>>, image_size |-> "none",
           num_inference_steps |-> 0]

\* only the main title is tested
hasChineseTitleOnly(d) ==
  \E i \in 1..Len(d.mainTitle) :
    CodePoint(d.mainTitle[i]) >= HanziFirst /\ CodePoint(d.mainTitle[i]) <= HanziLast

\* /[\u4e00-\u9fa5]/.test(data.mainTitle + data.subTitle + data.instruction)
hasChinese(d) ==
  LET text == d.mainTitle \o d.subTitle \o d.instruction
  IN  \E i \in 1..Len(text) :
        CodePoint(text[i]) >= HanziFirst /\ CodePoint(text[i]) <= HanziLast

\* the subtitle line is left out
PromptBaseNoSubtitle(d) ==
     <<"Design a professional viral video thumbnail for ", d.platform,
       ". CRITICAL TEXT INSTRUCTIONS (MUST RENDER EXACTLY): 1. The image MUST contain the Main Title: \"">>
  \o d.mainTitle
  \o <<"\" 3. Text must be perfectly legible, correct spelling, high contrast, and professional typography. VISUAL STYLE & CONTENT: ">>
  \o d.instruction
  \o <<" Aspect Ratio: ", d.aspectRatio,
       ". Resolution: High definition, 4K, detailed texture.">>

\* the template string of lines 42-55
PromptBase(d) ==
     <<"Design a professional viral video thumbnail for ", d.platform,
       ". CRITICAL TEXT INSTRUCTIONS (MUST RENDER EXACTLY): 1. The image MUST contain the Main Title: \"">>
  \o d.mainTitle
  \o <<"\" 2. The image MUST contain the Subtitle: \"">>
  \o d.subTitle
  \o <<"\" 3. Text must be perfectly legible, correct spelling, high contrast, and professional typography. VISUAL STYLE & CONTENT: ">>
  \o d.instruction
  \o <<" Aspect Ratio: ", d.aspectRatio,
       ". Resolution: High definition, 4K, detailed texture.">>

\* the block appended for Chinese text, lines 59-67
ChineseBlock ==
  <<"LANGUAGE SETTING: CHINESE (", "U+7B80", "U+4F53", "U+4E2D", "U+6587",
    ") - The text contains Chinese characters (Hanzi). - You MUST render the Chinese characters correctly with correct strokes. - Do NOT generate garbled text, gibberish, or fake characters. - Use a bold, modern Chinese font (like Heiti or Sans-serif).">>

ReferenceDirective ==
  <<"Use the provided [REFERENCE IMAGE] as a strict reference for layout, composition, and color palette.">>

SubjectDirective ==
  <<"Use the provided [SUBJECT IMAGE] as the main character/subject in the composition.">>

buildPrompt(d, force) ==
     PromptBase(d)
  \o (IF hasChinese(d) \/ force THEN ChineseBlock ELSE <<>>)
  \o (IF d.referenceImage THEN ReferenceDirective ELSE <<>>)
  \o (IF d.subjectImage THEN SubjectDirective ELSE <<>>)

\* a call of buildPrompt(data, forceChineseContext)
BuildPrompt ==
  /\ ppc = "call"
  /\ prompt' = buildPrompt(data, forceChineseContext)
  /\ ppc' = "built"
  /\ UNCHANGED <<data, forceChineseContext, sfBody>>
  /\ UNCHANGED <<appVars, ckVars, qwenVars, bootVars>>

\* models the SiliconFlow entry of MODEL_PROVIDERS offers
SfModels == {FluxSchnell, FluxDev, SD3Medium, GLM4, Qwen25}

SfSuffix == <<"Render text in high quality. No typos.">>

\* the body generateWithSiliconFlow posts for form data d and model m
SfRequestBody(d, m) ==
  [model |-> m,
   prompt |-> buildPrompt(d, FALSE) \o SfSuffix,
   image_size |-> "1024x1024",
   num_inference_steps |-> 25]

\* generateWithSiliconFlow with an API key, up to the fetch it issues
SfComposeRequest ==
  /\ ppc = "call"
  /\ \E m \in SfModels : sfBody' = SfRequestBody(data, m)
  /\ ppc' = "sent"
  /\ UNCHANGED <<data, forceChineseContext, prompt>>
  /\ UNCHANGED <<appVars, ckVars, qwenVars, bootVars>>

\* ------------------------------------------------------------------------
\* The App's first render: the settings initializer and the persist effect

\* settings objects the settings dialog can produce
AllSettings ==
  {s \in [activeProvider : Providers,
          apiKeys : [Providers -> AppKeys],
          selectedModels : [Providers -> {Gemini3Pro, Gemini25Flash, FluxSchnell,
                                          FluxDev, SD3Medium, GLM4, Qwen25}]] :
     \A p \in Providers :
       \E i \in 1..Len(MODEL_PROVIDERS[p].models) :
         s.selectedModels[p] = MODEL_PROVIDERS[p].models[i]}

\* what localStorage may hold under the key when the page is opened: nothing,
\* '' or a malformed text, or a record the App wrote earlier
StoredRecords ==
  {<<>>, <<EmptyText>>, <<MalformedText>>} \cup {Persisted(s) : s \in AllSettings}

\* the first render completed with settings s; the persist effect ran on mount
StartWith(s, isDefaults) ==
  /\ bootpc' = "running"
  /\ bootError' = NoError
  /\ settings' = s
  /\ defaultsObject' = isDefaults
  /\ storage' = Persisted(s)

\* useState's initializer: saved ? JSON.parse(saved) : DEFAULT_SETTINGS; an
\* error it throws ends the render, and nothing is mounted
Startup ==
  /\ bootpc = "boot"
  /\ saved' = storage
  /\ IF Len(storage) = 0 \/ storage[1].json = "empty"
       THEN StartWith(DEFAULT_SETTINGS, TRUE)
       ELSE IF JSONparses(storage[1])
       THEN StartWith(JSONparse(storage[1]), FALSE)
       ELSE /\ bootpc' = "crashed"
            /\ bootError' = JsonSyntaxError
            /\ UNCHANGED <<settings, defaultsObject, storage>>
  /\ UNCHANGED envApiKey
  /\ AttemptUnchanged
  /\ UNCHANGED <<ckVars, qwenVars, promptVars>>

\* ------------------------------------------------------------------------
\* The specifications

InitApp ==
  /\ settings = DEFAULT_SETTINGS
  /\ defaultsObject = TRUE
  /\ storage = Persisted(DEFAULT_SETTINGS)
  /\ envApiKey \in BOOLEAN
  /\ isLoading = FALSE
  /\ error = NoError
  /\ generatedImages = <<>>
  /\ pc = "idle"
  /\ req = NoReq
  /\ resp = NoAnswer
  /\ calls = 0
  /\ inFlight = 0
  /\ thrown = NotThrown

\* the first render is over: no record was found, the defaults were persisted
InitBootDone ==
  /\ bootpc = "running"
  /\ saved = <<>>
  /\ bootError = NoError

InitPromptIdle ==
  /\ ppc = "idle"
  /\ data = NoData
  /\ forceChineseContext = FALSE
  /\ prompt = <<>>
  /\ sfBody = NoBody

InitCkIdle ==
  /\ ckpc = "done"
  /\ ckProvider = GEMINI
  /\ ckKey = <<>>
  /\ ckResult = FALSE
  /\ ckHost = "unavailable"

InitQwenIdle ==
  /\ qpc = "idle"
  /\ qApiKey = <<>>
  /\ status = "undefined"
  /\ attempts = 0
  /\ qResp = NoResp
  /\ qImages = <<>>
  /\ qError = <<>>
  /\ polls = 0
  /\ waited = 0
  /\ allPending = TRUE
  /\ firstSucc = 0
  /\ sawFailed = FALSE
  /\ httpFailed = 0

Init == InitApp /\ InitCkIdle /\ InitQwenIdle /\ InitBootDone /\ InitPromptIdle

Next ==
  \/ SwitchProvider
  \/ handleUpdateApiKey
  \/ handleModelSelect
  \/ handleClearData
  \/ Generate
  \/ CheckKey
  \/ SelectKey
  \/ Dispatch
  \/ GeminiFiles
  \/ GeminiAnswer
  \/ GeminiHandle
  \/ SfAnswer
  \/ SfBody

Spec == Init /\ [][Next]_vars

\* API keys a request to generateWithQwen may carry
QwenKeys == {Key(0), Key(MaxKeyLen)}

InitQwen ==
  /\ InitApp
  /\ InitCkIdle
  /\ InitBootDone
  /\ InitPromptIdle
  /\ qpc = "start"
  /\ qApiKey \in QwenKeys
  /\ status = "undefined"
  /\ attempts = 0
  /\ qResp = NoResp
  /\ qImages = <<>>
  /\ qError = <<>>
  /\ polls = 0
  /\ waited = 0
  /\ allPending = TRUE
  /\ firstSucc = 0
  /\ sawFailed = FALSE
  /\ httpFailed = 0

NextQwen ==
  \/ QwenStart
  \/ QwenSubmitResponse
  \/ QwenSubmitBody
  \/ QwenWait
  \/ QwenPollResponse
  \/ QwenPollBody

SpecQwen == InitQwen /\ [][NextQwen]_vars

\* savedKey arguments of checkApiKey: not passed, or any key of up to MaxKeyLen characters
SavedKeys == {Undefined} \cup SeqUpTo(KeyChars, MaxKeyLen)

InitCheckKey ==
  /\ InitApp
  /\ InitQwenIdle
  /\ InitBootDone
  /\ InitPromptIdle
  /\ ckpc = "call"
  /\ ckProvider \in Providers
  /\ ckKey \in SavedKeys
  /\ ckResult = FALSE
  /\ ckHost = "unavailable"

NextCheckKey == CheckApiKey

SpecCheckKey == InitCheckKey /\ [][NextCheckKey]_vars

\* ---- generateWithQwen behind handleGenerate and generateCoverImage

\* ModelProvider.QWEN, as the switch of generateCoverImage names it
QWEN == "qwen"

\* the model of a Qwen request
QwenModel == <<"wanx-v1">>

\* the locals of a call of generateWithQwen: a new call with this key (p is
\* "start"), or none once the call has settled (p is "idle")
QwenLocals(p, key) ==
  /\ qpc' = p
  /\ qApiKey' = key
  /\ status' = "undefined"
  /\ attempts' = 0
  /\ qResp' = NoResp
  /\ qImages' = <<>>
  /\ qError' = <<>>
  /\ polls' = 0
  /\ waited' = 0
  /\ allPending' = TRUE
  /\ firstSucc' = 0
  /\ sawFailed' = FALSE
  /\ httpFailed' = 0

\* the switch of generateCoverImage for the providers of the enum
LiveDispatch ==
  /\ req.provider # QWEN
  /\ Dispatch

\* case ModelProvider.QWEN: return generateWithQwen({ data, model, apiKey })
DispatchQwen ==
  /\ pc = "dispatch"
  /\ req.provider = QWEN
  /\ pc' = "qwen"
  /\ QwenLocals("start", req.apiKey)
  /\ UNCHANGED <<isLoading, error, generatedImages, req, resp, inFlight, thrown>>
  /\ UNCHANGED <<calls, envApiKey>>
  /\ SettingsUnchanged
  /\ UNCHANGED <<ckVars, bootVars, promptVars>>

\* generateWithQwen settled: handleGenerate's await returns or throws
FinishQwen ==
  /\ pc = "qwen"
  /\ qpc \in {"returned", "failed"}
  /\ IF qpc = "returned"
       THEN Return([i \in 1..Len(qImages) |-> <<qImages[i]>>])
       ELSE Throw(qError)
  /\ QwenLocals("idle", <<>>)
  /\ UNCHANGED <<calls, envApiKey>>
  /\ SettingsUnchanged
  /\ UNCHANGED <<ckVars, bootVars, promptVars>>

\* settings an attempt may start from: either provider active, with no key, a
\* key that is too short or a key that is long enough
LiveSettings ==
  {[DEFAULT_SETTINGS EXCEPT !.activeProvider = p, !.apiKeys[p] = k] :
     p \in Providers, k \in AppKeys}

\* no attempt is running: the generate button may be clicked
InitLiveIdle ==
  /\ settings \in LiveSettings
  /\ defaultsObject = (settings = DEFAULT_SETTINGS)
  /\ envApiKey \in BOOLEAN
  /\ isLoading = FALSE
  /\ pc = "idle"
  /\ req = NoReq
  /\ inFlight = 0

\* the generate button has just been clicked and the request goes to Qwen: the
\* settings of the model hold the providers of the ModelProvider enum only, so
\* the provider, the model and the key of the request are given here
InitLiveQwen ==
  /\ settings = DEFAULT_SETTINGS
  /\ defaultsObject = TRUE
  /\ envApiKey = FALSE
  /\ isLoading = TRUE
  /\ pc = "checkKey"
  /\ \E key \in QwenKeys :
       req = [provider |-> QWEN, model |-> QwenModel, apiKey |-> key]
  /\ inFlight = 1

InitLive ==
  /\ InitLiveIdle \/ InitLiveQwen
  /\ storage = Persisted(settings)
  /\ error = NoError
  /\ generatedImages = <<>>
  /\ resp = NoAnswer
  /\ calls = 0
  /\ thrown = NotThrown
  /\ InitCkIdle
  /\ InitQwenIdle
  /\ InitBootDone
  /\ InitPromptIdle

\* the steps of a running attempt: continuations of awaits, each of which runs
\* once the call or callback it waits for has returned or failed
AttemptStep ==
  \/ CheckKey
  \/ SelectKey
  \/ LiveDispatch
  \/ DispatchQwen
  \/ GeminiFiles
  \/ GeminiAnswer
  \/ GeminiHandle
  \/ SfAnswer
  \/ SfBody
  \/ NextQwen
  \/ FinishQwen

NextLive ==
  \/ Generate
  \/ AttemptStep

SpecLive == InitLive /\ [][NextLive]_vars /\ WF_vars(AttemptStep)

\* the page is opened with any of the records the storage may hold
InitStartup ==
  /\ storage \in StoredRecords
  /\ settings = NoSettings
  /\ defaultsObject = FALSE
  /\ envApiKey \in BOOLEAN
  /\ isLoading = FALSE
  /\ error = NoError
  /\ generatedImages = <<>>
  /\ pc = "idle"
  /\ req = NoReq
  /\ resp = NoAnswer
  /\ calls = 0
  /\ inFlight = 0
  /\ thrown = NotThrown
  /\ bootpc = "boot"
  /\ saved = <<>>
  /\ bootError = NoError
  /\ InitCkIdle
  /\ InitQwenIdle
  /\ InitPromptIdle

NextStartup == Startup

SpecStartup == InitStartup /\ [][NextStartup]_vars

\* form data and the forceChineseContext argument a call may be made with
InitPrompt ==
  /\ InitApp
  /\ ~envApiKey
  /\ InitCkIdle
  /\ InitQwenIdle
  /\ InitBootDone
  /\ ppc = "call"
  /\ data \in FormData
  /\ forceChineseContext \in BOOLEAN
  /\ prompt = <<>>
  /\ sfBody = NoBody

NextPrompt ==
  \/ BuildPrompt
  \/ SfComposeRequest

SpecPrompt == InitPrompt /\ [][NextPrompt]_vars

\* ------------------------------------------------------------------------
\* Properties

\* text contains sub as a run of fragments ("" is contained in every text)
Contains(text, sub) ==
  \/ sub = <<>>
  \/ \E i \in 1..Len(text) :
       i + Len(sub) - 1 <= Len(text) /\ SubSeq(text, i, i + Len(sub) - 1) = sub

\* a permission-denied answer of generateContent is being handled for Gemini 3 Pro
PermissionDeniedOnGemini3Pro ==
  /\ pc = "gemHandle"
  /\ resp.kind = "error"
  /\ GeminiIsPermission(resp)
  /\ IsGemini3Pro(req.model)

\* C1: when the generate call for the gemini-3-pro model fails with a
\* permission-denied signal, generateWithGemini issues exactly one more generate
\* call, with the fallback model gemini-2.5-flash-image.
C1_PermissionDeniedRetriesWithFallback ==
  [][(PermissionDeniedOnGemini3Pro /\ calls = 1 /\ pc' # pc)
       => (pc' = "gemCall" /\ calls' = 2 /\ req'.model = Gemini25Flash)]_vars

\* C2: no execution of generateWithQwen issues a 31st status poll, and one in
\* which every poll reported PENDING ends only after exactly 30 polls, with the
\* timeout error.
C2_AllPendingTimesOutAfter30Polls ==
  /\ polls <= 30
  /\ (allPending /\ polls > 0 /\ qpc \in {"failed", "returned"})
       => (qpc = "failed" /\ qError = QwenTimedOut /\ polls = 30)

C2_Witness ==
  qpc = "failed" /\ allPending /\ polls = 30 /\ attempts = 30 /\ qError = QwenTimedOut

\* C3: once poll number k is the first to report SUCCEEDED with a non-empty
\* result list (and no poll reported FAILED), generateWithQwen issues no further
\* poll and returns exactly those URLs, in the provider's order, after k polls
\* and at least k-1 seconds of waiting.
C3_FirstSuccessReturnsItsUrls ==
  (firstSucc # 0 /\ ~sawFailed)
    => /\ firstSucc <= 30
       /\ polls = firstSucc
       /\ waited >= firstSucc - 1
       /\ qpc \in {"pollBody", "returned"}
       /\ qpc = "returned"
            => /\ Len(qImages) = Len(qResp.results)
               /\ \A i \in 1..Len(qImages) : qImages[i] = qResp.results[i].url

C3_Witness ==
  /\ qpc = "returned"
  /\ firstSucc = 3
  /\ polls = 3
  /\ waited >= 2
  /\ qImages = <<"u2", "u1">>

\* C4: an attempt started with a provider other than Gemini and an empty stored
\* credential has issued no network call, and its credential check ends it with
\* no network call and an error message that contains that provider's name.
C4_EmptyCredentialNoNetworkCall ==
  [][(pc = "checkKey" /\ req.provider # GEMINI /\ req.apiKey = <<>>)
       => /\ calls = 0
          /\ pc' # pc
               => /\ pc' = "idle"
                  /\ calls' = 0
                  /\ error' # NoError
                  /\ Contains(error', MODEL_PROVIDERS[req.provider].name)]_vars

C4_Witness ==
  /\ pc = "idle"
  /\ settings.activeProvider = SILICONFLOW
  /\ settings.apiKeys[SILICONFLOW] = <<>>
  /\ error = <<"Please enter an API Key for ", "SiliconFlow", " in Settings.">>
  /\ calls = 0

\* C5: at most one generation attempt is in flight; isLoading is true exactly
\* while one is, and the generate control is disabled while isLoading is true.
C5_OneAttemptInFlight ==
  /\ inFlight <= 1
  /\ isLoading <=> inFlight = 1
  /\ isLoading <=> pc # "idle"
  /\ isLoading => GenerateDisabled

C5_Witness == isLoading /\ inFlight = 1 /\ pc = "sfFetch" /\ calls = 1

\* C6: an attempt that ended with an error reaching the catch block shows a
\* non-empty error: the error's own message, or the generic text when the error
\* carries no message.
C6_FailureShowsMessage ==
  (pc = "idle" /\ thrown # NotThrown)
    => /\ error # NoError
       /\ error # <<>>
       /\ error = IF thrown \in {Undefined, <<>>} THEN GenericError ELSE thrown

C6_Witness == pc = "idle" /\ thrown = Undefined /\ error = GenericError

\* the answer being handled is a quota / resource-exhaustion error
IsQuotaSignal(e) == e.status = 429 \/ Includes(e.message, "RESOURCE_EXHAUSTED")

\* a failure after which the claim allows no retry is being handled
NoRetryFailure ==
  /\ pc = "gemHandle"
  /\ resp.kind = "error"
  /\ \/ GeminiIsPermission(resp) /\ ~IsGemini3Pro(req.model)
     \/ IsQuotaSignal(resp)
     \/ GeminiIsNetwork(resp)

\* C7: an attempt never issues more than two generate calls, and after a
\* permission error for a model other than gemini-3-pro, a quota error or a
\* connectivity error it has issued exactly one and issues no other.
C7_GeminiCallsBounded ==
  [][/\ calls' <= 2
     /\ NoRetryFailure => (calls = 1 /\ calls' = 1 /\ pc' \in {"gemHandle", "idle"})]_vars

C7_Witness ==
  pc = "idle" /\ calls = 1 /\ thrown = <<"RESOURCE_EXHAUSTED">>

\* C8: a quota / resource-exhaustion failure of generateContent makes the
\* adapter fail with a message of its own, which is neither the permission
\* message, nor the connectivity message, nor the provider's raw error message.
C8_QuotaHasItsOwnMessage ==
  [][(pc = "gemHandle" /\ resp.kind = "error" /\ IsQuotaSignal(resp) /\ pc' # pc)
       => /\ pc' = "idle"
          /\ thrown' \notin {GeminiPermissionDenied, GeminiNetworkError, resp.message}]_vars

\* C9: a non-2xx response makes generateWithSiliconFlow fail with a message
\* that contains the error body's message field, or the HTTP status text when
\* the body has no message, and no images are returned.
C9_SfErrorCarriesBodyMessage ==
  [][(pc = "sfBody" /\ ~resp.ok /\ pc' # pc)
       => /\ pc' = "idle"
          /\ thrown' # NotThrown
          /\ Contains(thrown', OrElse(resp.message, resp.statusText))
          /\ generatedImages' = generatedImages]_vars

C11_GeminiSavedKeySuffices ==
  (/\ ckpc = "done"
   /\ ckProvider = GEMINI
   /\ Truthy(ckKey)
   /\ ckHost \in {"unavailable", "notSelected"})
    => ckResult

C11_Witness ==
  /\ ckpc = "done"
  /\ ckProvider = GEMINI
  /\ ckKey = <<"s">>
  /\ ckHost = "notSelected"
  /\ ~envApiKey
  /\ ckResult

\* C12: the first render never fails, whatever the storage holds; it ends with
\* the defaults when the record is absent or cannot be parsed, and with the
\* record's settings otherwise.
C12_StartupNeverFails ==
  /\ bootpc # "crashed"
  /\ bootpc = "running"
       => IF Len(saved) = 1 /\ JSONparses(saved[1])
            THEN settings = JSONparse(saved[1])
            ELSE settings = DEFAULT_SETTINGS

\* C13: a confirmed clear, together with the persist effect it triggers, leaves
\* the storage key absent and the settings equal to the defaults.
C13_ClearDeletesRecord ==
  [][handleClearData => (Len(storage') = 0 /\ settings' = DEFAULT_SETTINGS)]_vars

\* C14: from the default settings on, after any sequence of settings actions,
\* selectedModels[p] is for every provider p one of the model ids that
\* MODEL_PROVIDERS lists for p.
C14_SelectedModelsAreListed ==
  \A p \in Providers :
    \E i \in 1..Len(MODEL_PROVIDERS[p].models) :
      settings.selectedModels[p] = MODEL_PROVIDERS[p].models[i]

C14_Witness ==
  /\ settings.activeProvider = GEMINI
  /\ settings.selectedModels[GEMINI] = Gemini25Flash
  /\ settings.selectedModels[SILICONFLOW] = Qwen25
  /\ settings.apiKeys[SILICONFLOW] = Key(MaxKeyLen)

\* a CJK ideograph: Extension A (U+3400..U+4DBF) or the unified block
\* (U+4E00..U+9FFF)
IsCJK(c) ==
  \/ CodePoint(c) >= 13312 /\ CodePoint(c) <= 19903
  \/ CodePoint(c) >= 19968 /\ CodePoint(c) <= 40959

\* the title, the subtitle or the instruction holds a CJK ideograph
HasCJK(d) ==
  \E t \in {d.mainTitle, d.subTitle, d.instruction} : \E i \in 1..Len(t) : IsCJK(t[i])

\* C15 (as stated): buildPrompt's output contains the Chinese block exactly
\* when the title, the subtitle or the instruction holds a CJK character or
\* forceChineseContext is true.
C15_BlockIffCJKOrForced ==
  ppc = "built"
    => (Contains(prompt, ChineseBlock) <=> (HasCJK(data) \/ forceChineseContext))

\* C15 (amended): buildPrompt's output contains the Chinese block exactly when
\* the title, the subtitle or the instruction holds a character in the range
\* U+4E00..U+9FA5 or forceChineseContext is true.
C15_BlockIffHanziRangeOrForced ==
  ppc = "built"
    => (Contains(prompt, ChineseBlock)
          <=> (\/ forceChineseContext
               \/ \E t \in {data.mainTitle, data.subTitle, data.instruction} :
                    \E i \in 1..Len(t) : CodePoint(t[i]) \in 19968..40869))

C15_Witness ==
  /\ ppc = "built"
  /\ ~forceChineseContext
  /\ data.mainTitle = <<"A">>
  /\ data.subTitle = <<"U+3400">>
  /\ data.instruction = <<"U+4E2D">>
  /\ Contains(prompt, ChineseBlock)

\* C16: buildPrompt's output contains the main title, the subtitle and the
\* aspect-ratio string of the request, whatever images are attached and
\* whatever forceChineseContext is.
C16_PromptCarriesTitlesAndRatio ==
  ppc = "built"
    => /\ Contains(prompt, data.mainTitle)
       /\ Contains(prompt, data.subTitle)
       /\ Contains(prompt, <<data.aspectRatio>>)

C16_Witness ==
  /\ ppc = "built"
  /\ forceChineseContext
  /\ data.subjectImage
  /\ data.referenceImage
  /\ data.mainTitle = <<"A">>
  /\ data.subTitle = <<"U+4E2D">>
  /\ data.instruction = <<>>
  /\ data.aspectRatio = "16:9"
  /\ Contains(prompt, <<"A">>)
  /\ Contains(prompt, <<"16:9">>)
  /\ Contains(prompt, SubjectDirective)

\* C17: an attempt that ends without an error leaves at least one image, and
\* an answer of Gemini or SiliconFlow that succeeded but carries no image ends
\* the attempt with the adapter's no-image error, the shown images untouched.
C17_NoEmptySuccess ==
  [][/\ (pc # "idle" /\ pc' = "idle" /\ thrown' = NotThrown)
          => Len(generatedImages') > 0
     /\ (/\ pc = "gemHandle"
         /\ resp.kind = "response"
         /\ ~resp.isNull
         /\ Len(ExtractImages(resp)) = 0
         /\ pc' # pc)
          => (pc' = "idle" /\ thrown' = GeminiNoImages
              /\ generatedImages' = generatedImages)
     /\ (/\ pc = "sfBody"
         /\ resp.ok /\ resp.json /\ ~resp.isNull
         /\ (~resp.hasList \/ Len(resp.list) = 0)
         /\ pc' # pc)
          => (pc' = "idle" /\ thrown' = SfNoImage
              /\ generatedImages' = generatedImages)]_vars

C17_Witness ==
  /\ pc = "idle"
  /\ settings.activeProvider = SILICONFLOW
  /\ calls = 1
  /\ thrown = SfNoImage
  /\ error = SfNoImage

\* C18: a status poll that reports FAILED ends generateWithQwen at once, with
\* an error that carries the provider's message; no poll follows it, whatever
\* is left of the attempt budget.
C18_FailedPollEndsAttempt ==
  [][/\ (qpc = "pollBody" /\ qResp.json /\ qResp.task_status = "FAILED")
          => /\ qpc' = "failed"
             /\ Contains(qError', <<"Qwen Generation Failed: ">> \o qResp.message)
             /\ polls' = polls
     /\ sawFailed' => (qpc' \in {"pollBody", "failed"} /\ polls' <= 30)
     /\ (sawFailed /\ qpc = "failed") => polls' = polls]_vars

C18_Witness ==
  /\ qpc = "failed"
  /\ sawFailed
  /\ polls = 2
  /\ attempts = 2
  /\ qError = <<"Qwen Generation Failed: ", "task failed">>

\* C19: a status poll answered with a non-ok HTTP status does not end
\* generateWithQwen: it has used one of the 30 attempts and the loop goes on
\* while attempts remain; polls never exceed 30, and 30 such polls in a row end
\* with the timeout error.
C19_FailedPollsAreSwallowed ==
  [][/\ (qpc = "poll" /\ httpFailed' = httpFailed + 1)
          => /\ attempts' = attempts
             /\ polls' = polls
             /\ IF attempts < 30
                  THEN qpc' = "wait" /\ qError' = qError
                  ELSE qpc' = "failed" /\ qError' = QwenTimedOut
     /\ polls' <= 30
     /\ attempts' = polls'
     /\ httpFailed' <= polls'
     /\ httpFailed' = 30 => (qpc' = "failed" /\ qError' = QwenTimedOut)]_vars

C19_Witness ==
  qpc = "failed" /\ httpFailed = 30 /\ polls = 30 /\ qError = QwenTimedOut

\* C20: the body generateWithSiliconFlow posts does not depend on the attached
\* images: it is the body posted for the same form data with any other choice
\* of subject and reference image.
C20_SfBodyIgnoresImages ==
  ppc = "sent"
    => \A subject \in BOOLEAN, reference \in BOOLEAN :
         sfBody = SfRequestBody([data EXCEPT !.subjectImage = subject,
                                             !.referenceImage = reference],
                                sfBody.model)

\* C21: when every call and callback an attempt waits for returns or fails,
\* every started attempt ends (with images, with the timeout or with another
\* error) and isLoading is false again, for Gemini, SiliconFlow and the poll
\* loop of Qwen.
C21_AttemptsTerminate ==
  isLoading ~> (~isLoading /\ pc = "idle" /\ inFlight = 0)

C21_Witness ==
  /\ ~isLoading
  /\ pc = "idle"
  /\ inFlight = 0
  /\ qpc = "idle"
  /\ thrown = QwenTimedOut
  /\ error = QwenTimedOut

\* C22: every step of an attempt (the click, the credential check, the key
\* selection, the dispatch, the adapter's calls, the handling of the result or
\* of the error) leaves the settings and the stored record as they are.
C22_AttemptLeavesSettingsAlone ==
  [][(\/ pc' # pc
      \/ isLoading' # isLoading
      \/ resp' # resp
      \/ calls' # calls
      \/ error' # error
      \/ generatedImages' # generatedImages)
       => (settings' = settings /\ storage' = storage)]_vars

C22_Witness ==
  /\ pc = "idle"
  /\ calls = 1
  /\ Len(generatedImages) > 0
  /\ req = NoReq
  /\ settings.activeProvider = GEMINI
  /\ settings.apiKeys[GEMINI] = <<>>
  /\ settings.selectedModels[GEMINI] = Gemini25Flash
  /\ storage = <<JSONstringify(settings)>>

\* C23 (as stated): whatever settings actions have been performed, the stored
\* record is the JSON text of the settings in memory.
C23_RecordEqualsSettings ==
  storage = <<JSONstringify(settings)>>

\* C23 (amended): whatever settings actions have been performed, the stored
\* record is the JSON text of the settings in memory, or the key is absent and
\* the settings in memory are the DEFAULT_SETTINGS object (a clear-all-data that
\* did not change the settings state, so that the persist effect did not run).
C23_RecordEqualsSettingsOrCleared ==
  \/ storage = <<JSONstringify(settings)>>
  \/ Len(storage) = 0 /\ defaultsObject /\ settings = DEFAULT_SETTINGS

C23_Witness ==
  /\ settings.activeProvider = SILICONFLOW
  /\ settings.apiKeys[SILICONFLOW] = Key(MaxKeyLen)
  /\ settings.selectedModels[SILICONFLOW] = FluxDev
  /\ storage = <<JSONstringify(settings)>>
  /\ pc = "idle"

\* C24: a status poll that reports SUCCEEDED with no result list, or an empty
\* one, is the last poll of generateWithQwen, whatever is left of the attempt
\* budget, and the call fails with the timeout error of an exhausted budget.
C24_EmptySuccessEndsAsTimeout ==
  [][/\ (/\ qpc = "pollBody"
         /\ qResp.json
         /\ qResp.task_status = "SUCCEEDED"
         /\ (~qResp.hasResults \/ Len(qResp.results) = 0))
          => /\ qpc' = "failed"
             /\ qError' = QwenTimedOut
             /\ polls' = polls
     /\ (qpc = "failed" /\ status = "SUCCEEDED")
          => (qError = QwenTimedOut /\ polls' = polls /\ qpc' = "failed")
     /\ status' = "SUCCEEDED" => qpc' \in {"failed", "returned"}]_vars

C24_Witness ==
  /\ qpc = "failed"
  /\ status = "SUCCEEDED"
  /\ polls = 2
  /\ attempts = 2
  /\ qError = QwenTimedOut

====
